---------------------------- MODULE Spec2Model ----------------------------
(***************************************************************************)
(* Retrieval index lifecycle and query answering of the AI-consciousness   *)
(* RAG project.                                                            *)
(*                                                                         *)
(*   Spec       the query-serving side: the FastAPI module                 *)
(*              (src/src/api/main.py), the CLI                             *)
(*              (src/src/rag_pipeline/main_cli.py) and the first CLI       *)
(*              (src/rag/query_bot.py), each owning one QueryBot           *)
(*              (src/src/rag_pipeline/bot.py).  Requests are served one    *)
(*              at a time.                                                 *)
(*   SpecBuild  the index build/update scripts                             *)
(*              (src/src/data/build_vector_store.py, src/rag/*.py) over    *)
(*              the on-disk index directories, with a reader that loads    *)
(*              an index directory at any moment.                          *)
(*   SpecConcurrent  the FastAPI module with requests overlapping on the   *)
(*              threads of its pool.                                       *)
(*   SpecReload a query-serving process next to build runs on its index    *)
(*              path.                                                      *)
(*   SpecPrepare  the loading and splitting of the documents               *)
(*              (build_vector_store.py, load_and_embed.py,                 *)
(*              process_local_json.stream_papers) up to the saved index.   *)
(*   SpecSplit  the chunker on any text and configuration.                 *)
(*   SpecFormat format_response on any result dictionary.                  *)
(*                                                                         *)
(* Strings that the code sorts are sequences of code points; all other     *)
(* strings are TLA+ strings.                                               *)
(***************************************************************************)
EXTENDS Naturals, Integers, Sequences, FiniteSets, TLC

Range(s) == {s[i] : i \in 1..Len(s)}

Min(a, b) == IF a <= b THEN a ELSE b

(***************************************************************************)
(* Document metadata.  A metadata mapping is a function whose domain is    *)
(* the set of keys it holds; dict.get(key, default) is Get.                *)
(***************************************************************************)
Get(m, k, d) == IF k \in DOMAIN m THEN m[k] ELSE d

\* "Unknown Title"
UnknownTitle == <<85, 110, 107, 110, 111, 119, 110, 32, 84, 105, 116, 108, 101>>

\* "N/A"
NoCategory == <<78, 47, 65>>

\* A paper chunk: title "B", category "c".
PaperB == [title |-> <<66>>, source_type |-> "arxiv_paper", primary_category |-> <<99>>]

\* A transcript chunk: title "A".
TranscriptA == [title |-> <<65>>, source_type |-> "transcript"]

\* A transcript chunk whose title is literally "B (c)".
TranscriptBc == [title |-> <<66, 32, 40, 99, 41>>, source_type |-> "transcript"]

\* A paper chunk whose metadata holds neither title nor category.
PaperBare == [source_type |-> "arxiv_paper"]

\* The chunk embed_chalmers.py stores: a title ("A") and no source_type.
ChalmersA == [title |-> <<65>>]

(***************************************************************************)
(* format_source_doc and the source list of an answer.                     *)
(***************************************************************************)
format_source_doc(doc) ==
    LET title == Get(doc, "title", UnknownTitle)
    IN  IF Get(doc, "source_type", "") = "arxiv_paper"
        THEN title \o <<32, 40>> \o Get(doc, "primary_category", NoCategory) \o <<41>>
        ELSE title

\* Python's str ordering: code point by code point, a proper prefix first.
LexLess(a, b) ==
    \E i \in 1..(Len(a) + 1) :
        /\ \A j \in 1..(i - 1) : j <= Len(b) /\ a[j] = b[j]
        /\ \/ i = Len(a) + 1 /\ Len(b) >= i
           \/ i <= Len(a) /\ i <= Len(b) /\ a[i] < b[i]

RECURSIVE SortedList(_)
SortedList(S) ==
    IF S = {} THEN <<>>
    ELSE LET m == CHOOSE x \in S : \A y \in S \ {x} : LexLess(x, y)
         IN  <<m>> \o SortedList(S \ {m})

RECURSIVE FirstOccurrences(_)
FirstOccurrences(s) ==
    IF s = <<>> THEN <<>>
    ELSE LET rest == FirstOccurrences(SubSeq(s, 1, Len(s) - 1))
         IN  IF s[Len(s)] \in Range(rest) THEN rest ELSE Append(rest, s[Len(s)])

\* The sources in retrieval order, first occurrences kept: no sort.
UniqueSourcesUnsorted(source_docs) ==
    FirstOccurrences([i \in 1..Len(source_docs) |-> format_source_doc(source_docs[i])])

\* sorted(list({format_source_doc(doc) for doc in source_docs}))
UniqueSources(source_docs) ==
    SortedList({format_source_doc(source_docs[i]) : i \in 1..Len(source_docs)})

(***************************************************************************)
(* Configuration (src/src/config.py).                                      *)
(***************************************************************************)
\* rag_application.answer_length_map: Dict[str, int]
AnswerLengthMap == [short |-> 1, medium |-> 2, long |-> 3]

\* length_map.keys(), in the mapping's order
LengthKeys == <<"short", "medium", "long">>

\* The lengths a request may carry; "extreme" is no key of the map.
RequestLengths == {"short", "medium", "long", "extreme"}

(***************************************************************************)
(* The index directory and the in-memory vector store.                     *)
(***************************************************************************)
NoFile == [present |-> FALSE, data |-> <<>>]

File(s) == [present |-> TRUE, data |-> s]

NoDir == [dir |-> FALSE, faiss |-> NoFile, pkl |-> NoFile]

\* The embedding of a chunk, as the vector table holds it.
Embed(chunk) == [vec_of |-> chunk]

EmbedAll(chunks) == [i \in 1..Len(chunks) |-> Embed(chunks[i])]

\* A directory holding a completely saved index of these chunks.
SavedDir(chunks) == [dir |-> TRUE, faiss |-> File(EmbedAll(chunks)), pkl |-> File(chunks)]

\* FAISS.load_local(folder_path): reads the vector table and the chunk
\* records; raises when the directory or one of the two files is missing.
LoadLocal(d) ==
    IF d.dir /\ d.faiss.present /\ d.pkl.present
    THEN [ok |-> TRUE, vectors |-> d.faiss.data, records |-> d.pkl.data]
    ELSE [ok |-> FALSE, vectors |-> <<>>, records |-> <<>>]


(***************************************************************************)
(* State.                                                                  *)
(***************************************************************************)
VARIABLES
    disk,           \* index path -> the index directory found there
    embeddingOK,    \* whether HuggingFaceEmbeddings(model_name) can be built
    pc,             \* serving process -> its position
    exitStatus,     \* serving process -> exit status (-1 while running)
    bot,            \* serving process -> its QueryBot (NoBot: None / not built)
    req,            \* caller -> the request it is serving or served last
    cliTokens,      \* main_cli.main's num_tokens (0 before the choice)
    run,            \* the build script being run and its position
    hist,           \* index path -> the runs completed since it held no index
    last,           \* the build run that ended last, and how (until the next starts)
    observed,       \* what the reader's last load of an index path returned
    prep,           \* the document preparation of a run: sources, documents, chunks
    cliLog,         \* main_cli.main's last prompt round: the input and the bot.ask calls
    fmt             \* a result dictionary and what format_response made of it

vars ==
    <<disk, embeddingOK, pc, exitStatus, bot, req, cliTokens, run, hist, last, observed,
      prep, cliLog, fmt>>

serveVars == <<pc, exitStatus, bot, req, cliTokens, cliLog, fmt>>

buildVars == <<run, hist, last, observed>>

\* "cfg": config faiss_index_path; "rag": rag/faiss_index of the rag/ scripts.
Paths == {"cfg", "rag"}

Procs == {"api", "cli", "legacy"}

\* The threads FastAPI's pool runs ask_question on.
Threads == {"t1", "t2"}

Callers == Threads \cup {"cli", "legacy"}

IndexPathOf(p) == IF p = "legacy" THEN "rag" ELSE "cfg"

NoBot == [none |-> TRUE]

NoResponse ==
    [status |-> "none", answer |-> "", sources_header |-> FALSE, sources |-> <<>>,
     detail |-> ""]

IdleReq ==
    [pc |-> "idle", length |-> "", num_tokens |-> 0, bot_ready |-> FALSE,
     llm |-> "none", llm_budget |-> 0, docs |-> <<>>, response |-> NoResponse]

\* as_retriever(): the library's default number of chunks per query
RetrieverK == 4

\* What the language model may answer.
LLMTexts == {"Consciousness is a complex phenomenon.", ""}

\* The chunk lists a retrieval over these records may return: min(N, k)
\* distinct entries, in the order the similarity to the query gives them.
Retrievals(records) ==
    LET n == Min(Len(records), RetrieverK)
        picks == {f \in [1..n -> 1..Len(records)] :
                     \A i, j \in 1..n : i # j => f[i] # f[j]}
    IN  {[i \in 1..n |-> records[f[i]]] : f \in picks}

(***************************************************************************)
(* QueryBot (src/src/rag_pipeline/bot.py).                                 *)
(***************************************************************************)
\* _initialize_chain with the load error swallowed: the chain is built anyway.
InitializeChainSwallow(d, embOK) ==
    [exit |-> -1,
     bot |-> [db |-> [vectors |-> d.faiss.data, records |-> d.pkl.data],
              num_predict |-> AnswerLengthMap["medium"]]]

\* QueryBot.__init__ / _initialize_chain: the bot, or SystemExit(1).
InitializeChain(d, embOK) ==
    LET r == LoadLocal(d)
    IN  IF embOK /\ r.ok
        THEN [exit |-> -1,
              bot |-> [db |-> [vectors |-> r.vectors, records |-> r.records],
                       num_predict |-> AnswerLengthMap["medium"]]]
        ELSE [exit |-> 1, bot |-> NoBot]

\* ask without the per-query update of the token count.
AskKeepTokens(b, num_predict_tokens) == b

\* ask reloading the index from the index path before it answers.
AskReloading(b, num_predict_tokens) ==
    [db |-> [vectors |-> disk["cfg"].faiss.data, records |-> disk["cfg"].pkl.data],
     num_predict |-> num_predict_tokens]

\* QueryBot.ask, first statement: llm.num_predict = num_predict_tokens
AskSetTokens(b, num_predict_tokens) ==
    [b EXCEPT !.num_predict = num_predict_tokens]

RECURSIVE JoinKeys(_)
\* ', '.join(keys)
JoinKeys(keys) ==
    IF keys = <<>> THEN ""
    ELSE IF Len(keys) = 1 THEN keys[1]
    ELSE keys[1] \o ", " \o JoinKeys(Tail(keys))


\* RetrievalQA's result dictionary.
ChainResult(text, docs) == [result |-> text, source_documents |-> docs]

(***************************************************************************)
(* The Answer API (src/src/api/main.py).                                   *)
(***************************************************************************)
ServiceUnavailable ==
    [NoResponse EXCEPT !.status = "503",
                       !.detail = "Bot is not initialized. Please wait."]

\* The rejection of an invalid length with the validation error's status.
InvalidLength422 ==
    [NoResponse EXCEPT !.status = "422",
                       !.detail = "Invalid length. Choose from: " \o JoinKeys(LengthKeys)]

\* HTTPException(status_code=400, detail=f"Invalid length. Choose from: ...")
InvalidLength ==
    [NoResponse EXCEPT !.status = "400",
                       !.detail = "Invalid length. Choose from: " \o JoinKeys(LengthKeys)]

\* The two checks in the other order: the length first, then the bot.
AskQuestionRejectLengthFirst(b, length) ==
    IF length \notin DOMAIN AnswerLengthMap THEN InvalidLength
    ELSE IF b = NoBot THEN ServiceUnavailable
    ELSE NoResponse

\* ask_question's two checks: the error response, or NoResponse to go on.
AskQuestionReject(b, length) ==
    IF b = NoBot THEN ServiceUnavailable
    ELSE IF length \notin DOMAIN AnswerLengthMap THEN InvalidLength
    ELSE NoResponse

\* ask_question's response from the chain's result.
AskResponse(result) ==
    [NoResponse EXCEPT !.status = "200",
                       !.answer = Get(result, "result", "No answer found."),
                       !.sources = UniqueSources(Get(result, "source_documents", <<>>))]

\* ask_question has no handler around bot.ask: the exception leaves the
\* endpoint.
UnhandledException == [NoResponse EXCEPT !.status = "unhandled exception"]

\* on_event("startup"): bot = QueryBot(config.rag_application)
StartupEvent ==
    /\ pc["api"] = "start"
    /\ LET r == InitializeChain(disk["cfg"], embeddingOK)
       IN  IF r.exit = -1
           THEN /\ bot' = [bot EXCEPT !["api"] = r.bot]
                /\ pc' = [pc EXCEPT !["api"] = "serving"]
                /\ UNCHANGED exitStatus
           ELSE /\ pc' = [pc EXCEPT !["api"] = "exited"]
                /\ exitStatus' = [exitStatus EXCEPT !["api"] = r.exit]
                /\ UNCHANGED bot
    /\ UNCHANGED <<disk, embeddingOK, req, cliTokens, buildVars, prep,
                 cliLog, fmt>>

\* ask_question up to and including bot.ask's update of llm.num_predict.
ApiAskBegin(t, length) ==
    /\ pc["api"] \in {"start", "serving"}
    /\ req[t].pc # "invoking"
    /\ LET rej == AskQuestionReject(bot["api"], length)
           r0 == [IdleReq EXCEPT !.length = length,
                                 !.bot_ready = (bot["api"] # NoBot)]
       IN  IF rej # NoResponse
           THEN /\ req' = [req EXCEPT ![t] = [r0 EXCEPT !.pc = "done",
                                                        !.response = rej]]
                /\ UNCHANGED bot
           ELSE LET num_tokens == AnswerLengthMap[length]
                IN  /\ bot' = [bot EXCEPT !["api"] = AskSetTokens(@, num_tokens)]
                    /\ req' = [req EXCEPT ![t] = [r0 EXCEPT !.pc = "invoking",
                                                            !.num_tokens = num_tokens]]
    /\ UNCHANGED <<disk, embeddingOK, pc, exitStatus, cliTokens, buildVars, prep,
                 cliLog, fmt>>

\* chain.invoke(query) and the rest of ask_question.
ApiAskFinish(t) ==
    /\ req[t].pc = "invoking"
    /\ \/ req' = [req EXCEPT ![t] = [@ EXCEPT !.pc = "done",
                                              !.llm = "raised",
                                              !.llm_budget = bot["api"].num_predict,
                                              !.response = UnhandledException]]
       \/ \E docs \in Retrievals(bot["api"].db.records), text \in LLMTexts :
              req' = [req EXCEPT ![t] =
                         [@ EXCEPT !.pc = "done",
                                   !.llm = "ok",
                                   !.llm_budget = bot["api"].num_predict,
                                   !.docs = docs,
                                   !.response = AskResponse(ChainResult(text, docs))]]
    /\ UNCHANGED <<disk, embeddingOK, pc, exitStatus, bot, cliTokens, buildVars, prep,
                 cliLog, fmt>>

\* No request is between bot.ask's update and the end of chain.invoke.
NoRequestInFlight == \A t \in Threads : req[t].pc # "invoking"


(***************************************************************************)
(* The CLI (src/src/rag_pipeline/main_cli.py) and the first CLI            *)
(* (src/rag/query_bot.py).                                                 *)
(***************************************************************************)
\* What the user may type at a prompt.
Inputs == {"", "  ", "exit", "QUIT", " Medium ", "long", "short", "extreme",
           " What is qualia? "}

\* str.strip() on the inputs and their lower-cased forms
Strip(s) ==
    CASE s = "  " -> ""
      [] s = " Medium " -> "Medium"
      [] s = " medium " -> "medium"
      [] s = " What is qualia? " -> "What is qualia?"
      [] s = " what is qualia? " -> "what is qualia?"
      [] OTHER -> s

\* The input compared as typed, letter case kept.
LowerCaseKept(s) == s

\* str.lower() on the inputs and their stripped forms
Lower(s) ==
    CASE s = "QUIT" -> "quit"
      [] s = " Medium " -> " medium "
      [] s = "Medium" -> "medium"
      [] s = " What is qualia? " -> " what is qualia? "
      [] s = "What is qualia?" -> "what is qualia?"
      [] OTHER -> s

\* format_response writing the "Sources:" header whatever the list holds.
FormatResponseAlwaysSources(result) ==
    LET sources == Get(result, "source_documents", <<>>)
    IN  [NoResponse EXCEPT !.status = "printed",
                           !.answer = Get(result, "result", "No answer found."),
                           !.sources_header = TRUE,
                           !.sources = IF sources # <<>>
                                       THEN UniqueSources(sources) ELSE <<>>]

\* format_response: the "Answer:" section, and the "Sources:" section with
\* one line per distinct source when there are source documents.
FormatResponse(result) ==
    LET sources == Get(result, "source_documents", <<>>)
    IN  [NoResponse EXCEPT !.status = "printed",
                           !.answer = Get(result, "result", "No answer found."),
                           !.sources_header = (sources # <<>>),
                           !.sources = IF sources # <<>>
                                       THEN UniqueSources(sources) ELSE <<>>]

\* query_bot.main's printing: one line per source document, as retrieved.
LegacyPrint(result) ==
    LET sources == Get(result, "source_documents", <<>>)
    IN  [NoResponse EXCEPT !.status = "printed",
                           !.answer = Get(result, "result", "No answer found."),
                           !.sources_header = (sources # <<>>),
                           !.sources = [i \in 1..Len(sources) |->
                                           format_source_doc(sources[i])]]

\* main_cli.main: bot = QueryBot(config.rag_application)
CliConstruct ==
    /\ pc["cli"] = "start"
    /\ LET r == InitializeChain(disk["cfg"], embeddingOK)
       IN  IF r.exit = -1
           THEN /\ bot' = [bot EXCEPT !["cli"] = r.bot]
                /\ pc' = [pc EXCEPT !["cli"] = "choose"]
                /\ UNCHANGED exitStatus
           ELSE /\ pc' = [pc EXCEPT !["cli"] = "exited"]
                /\ exitStatus' = [exitStatus EXCEPT !["cli"] = r.exit]
                /\ UNCHANGED bot
    /\ UNCHANGED <<disk, embeddingOK, req, cliTokens, buildVars, prep,
                 cliLog, fmt>>

\* main_cli.main: one round of the answer-length prompt.
CliChoose(input) ==
    /\ pc["cli"] = "choose"
    /\ LET choice == Strip(Lower(input))
       IN  IF choice \in DOMAIN AnswerLengthMap
           THEN /\ cliTokens' = AnswerLengthMap[choice]
                /\ pc' = [pc EXCEPT !["cli"] = "ask"]
                /\ req' = [req EXCEPT !["cli"] = [IdleReq EXCEPT !.length = choice]]
           ELSE UNCHANGED <<cliTokens, pc, req>>
    /\ cliLog' = [prompt |-> "length", input |-> input, asked |-> 0, passed |-> 0]
    /\ UNCHANGED <<disk, embeddingOK, exitStatus, bot, buildVars, prep, fmt>>

\* main_cli.main: one round of the question loop.
CliAsk(input) ==
    /\ pc["cli"] = "ask"
    /\ LET query == Strip(input)
       IN  IF Lower(query) \in {"exit", "quit"}
           THEN /\ pc' = [pc EXCEPT !["cli"] = "exited"]
                /\ exitStatus' = [exitStatus EXCEPT !["cli"] = 0]
                /\ cliLog' = [prompt |-> "question", input |-> input,
                               asked |-> 0, passed |-> 0]
                /\ UNCHANGED <<bot, req>>
           ELSE IF query = ""
           THEN /\ cliLog' = [prompt |-> "question", input |-> input,
                               asked |-> 0, passed |-> 0]
                /\ UNCHANGED <<pc, exitStatus, bot, req>>
           ELSE LET b == AskSetTokens(bot["cli"], cliTokens)
                    r0 == [req["cli"] EXCEPT !.pc = "done",
                                             !.num_tokens = cliTokens,
                                             !.bot_ready = TRUE,
                                             !.llm_budget = b.num_predict]
                IN  /\ bot' = [bot EXCEPT !["cli"] = b]
                    /\ cliLog' = [prompt |-> "question", input |-> input,
                                   asked |-> 1, passed |-> cliTokens]
                    /\ \/ /\ req' = [req EXCEPT !["cli"] =
                                        [r0 EXCEPT !.llm = "raised",
                                                   !.docs = <<>>,
                                                   !.response = UnhandledException]]
                          /\ pc' = [pc EXCEPT !["cli"] = "exited"]
                          /\ exitStatus' = [exitStatus EXCEPT !["cli"] = 1]
                       \/ /\ \E docs \in Retrievals(b.db.records), text \in LLMTexts :
                                 req' = [req EXCEPT !["cli"] =
                                     [r0 EXCEPT !.llm = "ok",
                                                !.docs = docs,
                                                !.response =
                                                    FormatResponse(ChainResult(text, docs))]]
                          /\ UNCHANGED <<pc, exitStatus>>
    /\ UNCHANGED <<disk, embeddingOK, cliTokens, buildVars, prep, fmt>>

\* query_bot.main: load the index or SystemExit(1); the chain's llm takes
\* no token count.
LegacyLoad(d, embOK) ==
    LET r == LoadLocal(d)
    IN  IF embOK /\ r.ok
        THEN [exit |-> -1,
              bot |-> [db |-> [vectors |-> r.vectors, records |-> r.records],
                       num_predict |-> 0]]
        ELSE [exit |-> 1, bot |-> NoBot]

LegacyConstruct ==
    /\ pc["legacy"] = "start"
    /\ LET r == LegacyLoad(disk["rag"], embeddingOK)
       IN  IF r.exit = -1
           THEN /\ bot' = [bot EXCEPT !["legacy"] = r.bot]
                /\ pc' = [pc EXCEPT !["legacy"] = "ask"]
                /\ UNCHANGED exitStatus
           ELSE /\ pc' = [pc EXCEPT !["legacy"] = "exited"]
                /\ exitStatus' = [exitStatus EXCEPT !["legacy"] = r.exit]
                /\ UNCHANGED bot
    /\ UNCHANGED <<disk, embeddingOK, req, cliTokens, buildVars, prep,
                 cliLog, fmt>>

\* query_bot.main: one round of the question loop.
LegacyAsk(input) ==
    /\ pc["legacy"] = "ask"
    /\ LET query == Strip(input)
       IN  IF Lower(query) \in {"exit", "quit"}
           THEN /\ pc' = [pc EXCEPT !["legacy"] = "exited"]
                /\ exitStatus' = [exitStatus EXCEPT !["legacy"] = 0]
                /\ UNCHANGED req
           ELSE IF query = ""
           THEN UNCHANGED <<pc, exitStatus, req>>
           ELSE LET r0 == [IdleReq EXCEPT !.pc = "done", !.bot_ready = TRUE]
                IN  \/ /\ req' = [req EXCEPT !["legacy"] =
                                     [r0 EXCEPT !.llm = "raised",
                                                !.response = UnhandledException]]
                       /\ pc' = [pc EXCEPT !["legacy"] = "exited"]
                       /\ exitStatus' = [exitStatus EXCEPT !["legacy"] = 1]
                    \/ /\ \E docs \in Retrievals(bot["legacy"].db.records),
                              text \in LLMTexts :
                              req' = [req EXCEPT !["legacy"] =
                                  [r0 EXCEPT !.llm = "ok",
                                             !.docs = docs,
                                             !.response =
                                                 LegacyPrint(ChainResult(text, docs))]]
                       /\ UNCHANGED <<pc, exitStatus>>
    /\ UNCHANGED <<disk, embeddingOK, bot, cliTokens, buildVars, prep,
                 cliLog, fmt>>

(***************************************************************************)
(* The query-serving specification.  One of the three programs is run,     *)
(* against index directories as a build (or an interrupted build) leaves   *)
(* them.                                                                   *)
(***************************************************************************)
ServeIndexes ==
    {<<TranscriptA>>,
     <<TranscriptBc, PaperB, TranscriptA>>,
     <<PaperBare, ChalmersA, TranscriptA>>}

\* A directory a first save left after writing only the vector table.
DirWithoutRecords(chunks) ==
    [dir |-> TRUE, faiss |-> File(EmbedAll(chunks)), pkl |-> NoFile]

ServeDirs ==
    {NoDir, DirWithoutRecords(<<TranscriptA>>)}
        \cup {SavedDir(ix) : ix \in ServeIndexes}

EmptyStore == [vectors |-> <<>>, records |-> <<>>]

IdleRun ==
    [script |-> "none", pc |-> "idle", path |-> "cfg", chunks |-> <<>>,
     store |-> EmptyStore, before |-> NoDir, taken |-> "none"]

NoRunYet ==
    [script |-> "none", outcome |-> "none", path |-> "cfg", chunks |-> <<>>,
     before |-> NoDir, after |-> NoDir, taken |-> "none"]

\* The runs completed on a path since it held no index: how many, while
\* they were all runs of one script over one chunk list, the first creating
\* the index and the others extending it, none killed (clean).
FreshHist == [n |-> 0, script |-> "none", corpus |-> <<>>, clean |-> TRUE]

NothingObserved ==
    [seen |-> FALSE, ok |-> FALSE, matching |-> TRUE]

\* No document preparation is followed.
NoPrep == [program |-> "none", pc |-> "off"]

\* main_cli.main has prompted for nothing yet.
NoInput == [prompt |-> "none", input |-> "", asked |-> 0, passed |-> 0]

\* format_response has been handed nothing.
NotFormatted == [pc |-> "off", result |-> <<>>, response |-> NoResponse]

Init ==
    /\ \E d \in ServeDirs : disk = [p \in Paths |-> d]
    /\ embeddingOK \in BOOLEAN
    /\ \E program \in Procs :
           pc = [p \in Procs |-> IF p = program THEN "start" ELSE "off"]
    /\ exitStatus = [p \in Procs |-> -1]
    /\ bot = [p \in Procs |-> NoBot]
    /\ req = [c \in Callers |-> IdleReq]
    /\ cliTokens = 0
    /\ run = IdleRun
    /\ hist = [p \in Paths |-> FreshHist]
    /\ last = NoRunYet
    /\ observed = NothingObserved
    /\ cliLog = NoInput
    /\ fmt = NotFormatted
    /\ prep = NoPrep

Next ==
    \/ StartupEvent
    \/ \E t \in Threads, length \in RequestLengths :
           NoRequestInFlight /\ ApiAskBegin(t, length)
    \/ \E t \in Threads : ApiAskFinish(t)
    \/ CliConstruct
    \/ \E input \in Inputs : CliChoose(input)
    \/ \E input \in Inputs : CliAsk(input)
    \/ LegacyConstruct
    \/ \E input \in Inputs : LegacyAsk(input)

Spec == Init /\ [][Next]_vars


(***************************************************************************)
(* Properties of the query-serving side.                                   *)
(***************************************************************************)
Complete(d) == d.dir /\ d.faiss.present /\ d.pkl.present

Constructed(p) == pc[p] \notin {"off", "start"}

\* The callers that go through QueryBot.ask.
BotCallers == Threads \cup {"cli"}

\* C1: construction ends either with a bot whose index is the one loaded
\* from the index path (with the embedding model built), or with the process
\* exited with status 1 and no bot; a missing or incomplete index directory
\* or a failing embedding model always gives the second outcome.
C1_ReadyOrExit ==
    \A p \in Procs :
        LET d == disk[IndexPathOf(p)]
        IN  /\ bot[p] # NoBot =>
                   /\ embeddingOK /\ Complete(d)
                   /\ bot[p].db = [vectors |-> d.faiss.data, records |-> d.pkl.data]
                   /\ Constructed(p)
            /\ Constructed(p) =>
                   \/ bot[p] # NoBot
                   \/ pc[p] = "exited" /\ exitStatus[p] = 1
            /\ (Constructed(p) /\ ~(embeddingOK /\ Complete(d))) =>
                   pc[p] = "exited" /\ exitStatus[p] = 1 /\ bot[p] = NoBot

\* A process that found no loadable index and exited with status 1.
C1_Witness ==
    \E p \in Procs :
        /\ pc[p] = "exited" /\ exitStatus[p] = 1 /\ bot[p] = NoBot
        /\ embeddingOK /\ ~Complete(disk[IndexPathOf(p)])

\* C2: a request whose language-model call raised ends as a normal answer
\* with the text "No answer found." and no sources.
C2_FailureGivesFallback ==
    \A c \in BotCallers :
        req[c].llm = "raised" =>
            /\ req[c].response.status \in {"200", "printed"}
            /\ req[c].response.answer = "No answer found."
            /\ req[c].response.sources = <<>>

\* C3: the language model of a request with length L is invoked with
\* num_predict = answer_length_map[L], whatever the earlier requests used.
C3_BudgetOfRequest ==
    \A c \in BotCallers :
        req[c].llm # "none" =>
            /\ req[c].length \in DOMAIN AnswerLengthMap
            /\ req[c].llm_budget = AnswerLengthMap[req[c].length]

\* A "short" request served after a "long" one, each with its own budget.
C3_Witness ==
    \E t, u \in Threads :
        /\ t # u
        /\ req[t].llm = "ok" /\ req[t].length = "long" /\ req[t].llm_budget = 3
        /\ req[u].llm = "ok" /\ req[u].length = "short" /\ req[u].llm_budget = 1
        /\ bot["api"].num_predict = 1

\* C4 as stated: every /ask request with a length outside the map ends
\* with status 400, the valid keys in its detail, and no retrieval or
\* language-model call.
C4_InvalidLengthIs400 ==
    \A t \in Threads :
        (req[t].pc = "done" /\ req[t].length \notin DOMAIN AnswerLengthMap) =>
            /\ req[t].response.status = "400"
            /\ req[t].response.detail = "Invalid length. Choose from: short, medium, long"
            /\ req[t].llm = "none" /\ req[t].docs = <<>>

\* C4, amended: when the bot is initialized, an /ask request with a length
\* outside the map ends with status 400, the valid keys in its detail, and
\* no retrieval or language-model call.
C4_InvalidLengthIs400WhenReady ==
    \A t \in Threads :
        (req[t].pc = "done" /\ req[t].length \notin DOMAIN AnswerLengthMap
            /\ req[t].bot_ready) =>
            /\ req[t].response.status = "400"
            /\ req[t].response.detail = "Invalid length. Choose from: short, medium, long"
            /\ req[t].llm = "none" /\ req[t].docs = <<>>

\* An "extreme" request rejected by the initialized API.
C4_Witness ==
    \E t \in Threads :
        /\ req[t].pc = "done" /\ req[t].length = "extreme" /\ req[t].bot_ready
        /\ req[t].response.status = "400"
        /\ bot["api"] # NoBot

\* C5: a request that finds the bot uninitialized ends with status 503, for
\* a valid and for an invalid length alike, without bot.ask being called.
C5_UninitializedIs503 ==
    \A t \in Threads :
        (req[t].pc # "idle" /\ ~req[t].bot_ready) =>
            /\ req[t].pc = "done"
            /\ req[t].response = ServiceUnavailable
            /\ req[t].llm = "none" /\ req[t].num_tokens = 0 /\ req[t].docs = <<>>

\* An "extreme" request answered 503 before startup has run.
C5_Witness ==
    \E t \in Threads :
        /\ req[t].pc = "done" /\ req[t].length = "extreme" /\ ~req[t].bot_ready
        /\ req[t].response.status = "503"
        /\ pc["api"] = "start"

StrictlyAscending(s) == \A i \in 1..(Len(s) - 1) : LexLess(s[i], s[i + 1])

\* C6: the sources of an answer are the formatted strings of the retrieved
\* chunks ("{title} ({primary_category})" for arxiv_paper chunks, "{title}"
\* for the others), each distinct string once, in ascending order.
C6_SourcesSortedUnique ==
    \A c \in BotCallers :
        req[c].llm = "ok" =>
            LET out == req[c].response.sources
                docs == req[c].docs
            IN  /\ StrictlyAscending(out)
                /\ Range(out) = {format_source_doc(docs[i]) : i \in 1..Len(docs)}
                /\ PaperB \in Range(docs) => <<66, 32, 40, 99, 41>> \in Range(out)
                /\ TranscriptA \in Range(docs) => <<65>> \in Range(out)

\* "B (c)" retrieved twice and before "A": the answer lists "A", "B (c)".
C6_Witness ==
    \E t \in Threads :
        /\ req[t].llm = "ok"
        /\ req[t].docs = <<TranscriptBc, PaperB, TranscriptA>>
        /\ req[t].response.sources = <<(<<65>>), (<<66, 32, 40, 99, 41>>)>>


(***************************************************************************)
(* The index build and update scripts.                                     *)
(*                                                                         *)
(* A run is modelled from the point where its documents are loaded and     *)
(* split.  Every document is taken to have content, so a run with          *)
(* documents has chunks.  FAISS.save_local writes the vector table         *)
(* (index.faiss) and then the chunk records (index.pkl) in place under the *)
(* index path; the two writes are two steps, and a run may be killed       *)
(* between them.                                                           *)
(***************************************************************************)
\* The longest chunk list of one run.
MaxRunChunks == 2

\* The longest index the runs build.
MaxIndexLen == 4

Scripts == {"build_vector_store", "embed_transcripts", "embed_chalmers", "load_and_embed"}

\* config.embedding_pipeline.faiss_index_path for build_vector_store.py;
\* rag/faiss_index for the scripts under rag/.
PathOf(script) == IF script = "build_vector_store" THEN "cfg" ELSE "rag"

\* n copies of chunk c
Copies(c, n) == [i \in 1..n |-> c]

\* The chunk lists a run of the script may produce: build_vector_store puts
\* the paper chunks before the transcript chunks; embed_chalmers always has
\* its one transcript.
RunChunks(script) ==
    CASE script = "build_vector_store" ->
             {Copies(PaperB, ab[1]) \o Copies(TranscriptA, ab[2]) :
                 ab \in {x \in (0..MaxRunChunks) \X (0..MaxRunChunks) :
                            x[1] + x[2] <= MaxRunChunks}}
      [] script = "embed_transcripts" ->
             {Copies(TranscriptA, b) : b \in 0..MaxRunChunks}
      [] script = "embed_chalmers" ->
             {Copies(ChalmersA, b) : b \in 1..MaxRunChunks}
      [] OTHER ->
             {Copies(PaperB, a) : a \in 0..MaxRunChunks}

\* FAISS.from_documents(split_docs, embeddings)
FromDocuments(chunks) == [vectors |-> EmbedAll(chunks), records |-> chunks]

\* An add that skips the chunks the store already holds.
AddDocumentsDedup(store, chunks) ==
    LET new == SelectSeq(chunks, LAMBDA c : c \notin Range(store.records))
    IN  [vectors |-> store.vectors \o EmbedAll(new), records |-> store.records \o new]

\* An add that drops what the store held.
AddDocumentsReplace(store, chunks) ==
    [vectors |-> EmbedAll(chunks), records |-> chunks]

\* vector_store.add_documents(split_docs): appends, never merges.
AddDocuments(store, chunks) ==
    [vectors |-> store.vectors \o EmbedAll(chunks), records |-> store.records \o chunks]

\* The store always created from the run's chunks alone.
BuildOrUpdateAlwaysCreate(d, chunks) ==
    [ok |-> TRUE, taken |-> "create", store |-> FromDocuments(chunks)]

\* build_vector_store.main step 4 / embed_transcripts.main: load and extend
\* the index when the path exists, create it otherwise.
BuildOrUpdate(d, chunks) ==
    IF d.dir
    THEN LET r == LoadLocal(d)
         IN  IF r.ok
             THEN [ok |-> TRUE, taken |-> "update",
                   store |-> AddDocuments([vectors |-> r.vectors, records |-> r.records],
                                          chunks)]
             ELSE [ok |-> FALSE, taken |-> "update", store |-> EmptyStore]
    ELSE [ok |-> TRUE, taken |-> "create", store |-> FromDocuments(chunks)]

\* embed_chalmers.py: load_local without a check of the path, then add.
LoadAndAdd(d, chunks) ==
    LET r == LoadLocal(d)
    IN  IF r.ok
        THEN [ok |-> TRUE, taken |-> "update",
              store |-> AddDocuments([vectors |-> r.vectors, records |-> r.records],
                                     chunks)]
        ELSE [ok |-> FALSE, taken |-> "update", store |-> EmptyStore]

\* load_and_embed.main: always FAISS.from_documents.
CreateOnly(d, chunks) ==
    [ok |-> TRUE, taken |-> "create", store |-> FromDocuments(chunks)]

\* The vector store a script builds over the directory it finds.
StoreOf(script, d, chunks) ==
    CASE script \in {"build_vector_store", "embed_transcripts"} -> BuildOrUpdate(d, chunks)
      [] script = "embed_chalmers" -> LoadAndAdd(d, chunks)
      [] OTHER -> CreateOnly(d, chunks)

DirLen(d) == IF Len(d.faiss.data) >= Len(d.pkl.data) THEN Len(d.faiss.data)
             ELSE Len(d.pkl.data)

Ended(outcome, after) ==
    [script |-> run.script, outcome |-> outcome, path |-> run.path,
     chunks |-> run.chunks, before |-> run.before, after |-> after,
     taken |-> run.taken]

DirtyHist == [n |-> 0, script |-> "none", corpus |-> <<>>, clean |-> FALSE]

\* The start of a run without the check for no documents.
RunStartNoCheck(script, chunks) ==
    /\ run.pc = "idle"
    /\ DirLen(disk[PathOf(script)]) + Len(chunks) <= MaxIndexLen
    /\ \A q \in Paths \ {PathOf(script)} : disk[q] = NoDir
    /\ run' = [IdleRun EXCEPT !.script = script, !.pc = "split",
                              !.path = PathOf(script), !.chunks = chunks,
                              !.before = disk[PathOf(script)]]
    /\ last' = NoRunYet
    /\ UNCHANGED <<disk, embeddingOK, hist, observed, serveVars, prep>>

\* A script is started: its documents are loaded and split.  With no
\* documents it returns at once.  The two index paths do not interact, and
\* a behaviour follows the runs against one of them.
RunStart(script, chunks) ==
    /\ run.pc = "idle"
    /\ DirLen(disk[PathOf(script)]) + Len(chunks) <= MaxIndexLen
    /\ \A q \in Paths \ {PathOf(script)} : disk[q] = NoDir
    /\ IF chunks = <<>>
       THEN /\ run' = IdleRun
            /\ last' = [NoRunYet EXCEPT !.script = script,
                                        !.outcome = "no documents",
                                        !.path = PathOf(script),
                                        !.before = disk[PathOf(script)],
                                        !.after = disk[PathOf(script)]]
       ELSE /\ run' = [IdleRun EXCEPT !.script = script, !.pc = "split",
                                      !.path = PathOf(script), !.chunks = chunks,
                                      !.before = disk[PathOf(script)]]
            /\ last' = NoRunYet
    /\ UNCHANGED <<disk, embeddingOK, hist, observed, serveVars, prep>>

\* The embedding model is built and the store is created or loaded and
\* extended, in memory.  An exception ends the run.
BuildStore ==
    /\ run.pc = "split"
    /\ LET r == StoreOf(run.script, disk[run.path], run.chunks)
       IN  IF embeddingOK /\ r.ok
           THEN /\ run' = [run EXCEPT !.pc = "built", !.store = r.store,
                                      !.taken = r.taken]
                /\ UNCHANGED last
           ELSE /\ run' = IdleRun
                /\ last' = Ended("raised", disk[run.path])
    /\ UNCHANGED <<disk, embeddingOK, hist, observed, serveVars, prep>>

\* save_local, first write: the directory is made and index.faiss written.
SaveVectors ==
    /\ run.pc = "built"
    /\ disk' = [disk EXCEPT ![run.path] =
                   [@ EXCEPT !.dir = TRUE, !.faiss = File(run.store.vectors)]]
    /\ run' = [run EXCEPT !.pc = "saving"]
    /\ UNCHANGED <<embeddingOK, hist, last, observed, serveVars, prep>>

\* save_local, second write: index.pkl written; the run is complete.
SaveRecords ==
    /\ run.pc = "saving"
    /\ disk' = [disk EXCEPT ![run.path] = [@ EXCEPT !.pkl = File(run.store.records)]]
    /\ last' = Ended("saved", disk'[run.path])
    /\ hist' = [hist EXCEPT ![run.path] =
                   IF ~run.before.dir
                   THEN [n |-> 1, script |-> run.script, corpus |-> run.chunks,
                         clean |-> TRUE]
                   ELSE IF /\ @.clean /\ @.script = run.script /\ @.corpus = run.chunks
                           /\ run.taken = "update"
                   THEN [@ EXCEPT !.n = @ + 1]
                   ELSE DirtyHist]
    /\ run' = IdleRun
    /\ UNCHANGED <<embeddingOK, observed, serveVars, prep>>

\* The run is killed between the two writes of save_local.
Crash ==
    /\ run.pc = "saving"
    /\ last' = Ended("killed", disk[run.path])
    /\ hist' = [hist EXCEPT ![run.path] = DirtyHist]
    /\ run' = IdleRun
    /\ UNCHANGED <<disk, embeddingOK, observed, serveVars, prep>>

\* Another process loads an index path (QueryBot._initialize_chain's
\* FAISS.load_local), at any moment.  Of the store it gets, the state keeps
\* whether the vector table is that of the chunk records.
ReaderLoad(p) ==
    /\ LET r == LoadLocal(disk[p])
       IN  observed' = [seen |-> TRUE, ok |-> r.ok,
                        matching |-> (r.vectors = EmbedAll(r.records))]
    /\ UNCHANGED <<disk, embeddingOK, run, hist, last, serveVars, prep>>

InitBuild ==
    /\ disk = [p \in Paths |-> NoDir]
    /\ embeddingOK \in BOOLEAN
    /\ pc = [p \in Procs |-> "off"]
    /\ exitStatus = [p \in Procs |-> -1]
    /\ bot = [p \in Procs |-> NoBot]
    /\ req = [c \in Callers |-> IdleReq]
    /\ cliTokens = 0
    /\ run = IdleRun
    /\ hist = [p \in Paths |-> FreshHist]
    /\ last = NoRunYet
    /\ observed = NothingObserved
    /\ cliLog = NoInput
    /\ fmt = NotFormatted
    /\ prep = NoPrep

NextBuild ==
    \/ \E script \in Scripts : \E chunks \in RunChunks(script) : RunStart(script, chunks)
    \/ BuildStore
    \/ SaveVectors
    \/ SaveRecords
    \/ Crash
    \/ \E p \in Paths : ReaderLoad(p)

SpecBuild == InitBuild /\ [][NextBuild]_vars


(***************************************************************************)
(* Properties of the build and update runs.                                *)
(***************************************************************************)
IsPrefix(s, t) == Len(s) <= Len(t) /\ SubSeq(t, 1, Len(s)) = s

CreateOrUpdateScripts == {"build_vector_store", "embed_transcripts"}

\* C7: a run of build_vector_store or embed_transcripts that has documents
\* and runs to its end created the index when the path held none and loaded
\* and extended it when it held one, and has saved the whole result: the
\* index path holds what it held before followed by the run's chunks.
C7_CreateOrExtendThenSave ==
    /\ (last.outcome = "no documents") = (last.script # "none" /\ last.chunks = <<>>)
    /\ (last.outcome = "saved" /\ last.script \in CreateOrUpdateScripts) =>
           /\ last.chunks # <<>>
           /\ (last.taken = "create") = ~last.before.dir
           /\ (last.taken = "update") = last.before.dir
           /\ last.after =
                  [dir |-> TRUE,
                   faiss |-> File(last.before.faiss.data \o EmbedAll(last.chunks)),
                   pkl |-> File(last.before.pkl.data \o last.chunks)]
           /\ disk[last.path] = last.after

\* build_vector_store has extended an index of two chunks by two more.
C7_Witness ==
    /\ last.outcome = "saved" /\ last.script = "build_vector_store"
    /\ last.taken = "update"
    /\ Len(last.before.pkl.data) = 2 /\ Len(last.chunks) = 2
    /\ Len(disk["cfg"].pkl.data) = 4

\* C8: adding does not merge duplicates.  Adding to an index that holds
\* exactly a chunk list the same list again doubles its entries, and n
\* completed runs of the build
\* over one corpus of c chunks, the first finding no index, leave n*c
\* entries.
C8_RunsTimesChunks ==
    /\ (last.outcome = "saved" /\ last.taken = "update"
            /\ last.before = SavedDir(last.chunks)) =>
           /\ Len(last.after.pkl.data) = 2 * Len(last.chunks)
           /\ Len(last.after.faiss.data) = 2 * Len(last.chunks)
    /\ \A p \in Paths :
           (run.pc \in {"idle", "split", "built"} /\ hist[p].clean /\ hist[p].n >= 1
                /\ hist[p].script \in CreateOrUpdateScripts) =>
               /\ Complete(disk[p])
               /\ Len(disk[p].pkl.data) = hist[p].n * Len(hist[p].corpus)
               /\ Len(disk[p].faiss.data) = hist[p].n * Len(hist[p].corpus)

\* Two runs of build_vector_store over the same two chunks: four entries.
C8_Witness ==
    /\ run.pc = "idle"
    /\ hist["cfg"].clean /\ hist["cfg"].n = 2 /\ Len(hist["cfg"].corpus) = 2
    /\ hist["cfg"].script = "build_vector_store"
    /\ Len(disk["cfg"].pkl.data) = 4

\* Every entry of d is in e, at its place and unchanged.
EntriesKept(d, e) ==
    /\ IsPrefix(d.faiss.data, e.faiss.data)
    /\ IsPrefix(d.pkl.data, e.pkl.data)
    /\ d.dir => e.dir
    /\ d.faiss.present => e.faiss.present
    /\ d.pkl.present => e.pkl.present

\* C9 as stated: whatever script was run against an index path, every entry
\* the path held before the run is there after it, and the entries are no
\* fewer.
C9_AppendOnly ==
    last.script # "none" => EntriesKept(last.before, last.after)

\* C9, amended: a run of build_vector_store, embed_transcripts or
\* embed_chalmers, also one that raises or is killed, keeps every entry the
\* path held; a run of load_and_embed that saves leaves exactly its own
\* chunks at the path.
C9_AppendOnlyExceptRebuild ==
    /\ (last.script \in Scripts \ {"load_and_embed"}) =>
           EntriesKept(last.before, last.after)
    /\ (last.script = "load_and_embed" /\ last.outcome = "saved") =>
           last.after = SavedDir(last.chunks)

\* embed_transcripts has extended an index that held two chunks.
C9_Witness ==
    /\ last.outcome = "saved" /\ last.script = "embed_transcripts"
    /\ last.taken = "update"
    /\ Len(last.before.pkl.data) = 2
    /\ Len(last.after.pkl.data) > 2

\* C10: a load of an index path that succeeds, at whatever moment, returns
\* a vector table and chunk records of one and the same save.
C10_LoadSeesOneSave ==
    (observed.seen /\ observed.ok) => observed.matching


\* C14: a run that finds no documents ends at once, having taken neither the
\* create nor the update branch, and the index path holds exactly what it
\* held when the run started, an index or none.
C14_NoDocumentsNoTouch ==
    (last.script # "none" /\ last.chunks = <<>>) =>
        /\ last.outcome = "no documents"
        /\ last.taken = "none"
        /\ last.after = last.before
        /\ disk[last.path] = last.before

\* A run without documents against a path that holds an index of two.
C14_Witness ==
    /\ last.outcome = "no documents" /\ last.script = "build_vector_store"
    /\ Complete(last.before) /\ Len(last.before.pkl.data) = 2
    /\ disk["cfg"] = last.before

(***************************************************************************)
(* The chunker: RecursiveCharacterTextSplitter(chunk_size, chunk_overlap)  *)
(* with the library's defaults (separators "\n\n", "\n", " ", "";          *)
(* keep_separator, strip_whitespace, len as the length function), as the   *)
(* build scripts construct and call it.  A text is a sequence of code      *)
(* points.                                                                 *)
(***************************************************************************)
Newline == <<10>>

Blank == <<32>>

\* The splitter's default separators, the coarsest first.
Separators == <<Newline \o Newline, Newline, Blank, <<>>>>

\* The characters str.strip() removes.
Whitespace == {9, 10, 11, 12, 13, 32}

RECURSIVE LStrip(_)
LStrip(t) ==
    IF t # <<>> /\ Head(t) \in Whitespace THEN LStrip(Tail(t)) ELSE t

RECURSIVE RStrip(_)
RStrip(t) ==
    IF t # <<>> /\ t[Len(t)] \in Whitespace THEN RStrip(SubSeq(t, 1, Len(t) - 1)) ELSE t

\* str.strip()
StripText(t) == RStrip(LStrip(t))

\* The places where sep occurs in text.
Occurrences(text, sep) ==
    {i \in 1..(Len(text) - Len(sep) + 1) : SubSeq(text, i, i + Len(sep) - 1) = sep}

RECURSIVE ReSplit(_, _)
\* re.split(sep, text) for a literal, non-empty sep: the pieces between the
\* leftmost non-overlapping occurrences.
ReSplit(text, sep) ==
    IF Occurrences(text, sep) = {} THEN <<text>>
    ELSE LET i == CHOOSE k \in Occurrences(text, sep) :
                      \A m \in Occurrences(text, sep) : k <= m
         IN  <<SubSeq(text, 1, i - 1)>>
                 \o ReSplit(SubSeq(text, i + Len(sep), Len(text)), sep)

\* _split_text_with_regex(text, separator, keep_separator=True): every piece
\* but the first keeps the separator in front of it; empty pieces are dropped;
\* with the empty separator the pieces are the characters.
SplitTextWithRegex(text, sep) ==
    LET pieces == ReSplit(text, sep)
        splits == IF sep # <<>>
                  THEN <<pieces[1]>> \o [i \in 1..(Len(pieces) - 1) |-> sep \o pieces[i + 1]]
                  ELSE [i \in 1..Len(text) |-> <<text[i]>>]
    IN  SelectSeq(splits, LAMBDA x : x # <<>>)

RECURSIVE JoinText(_, _)
\* separator.join(docs)
JoinText(docs, sep) ==
    IF docs = <<>> THEN <<>>
    ELSE IF Len(docs) = 1 THEN docs[1]
    ELSE docs[1] \o sep \o JoinText(Tail(docs), sep)

\* _join_docs: the joined and stripped text (the empty text stands for None)
JoinDocs(docs, sep) == StripText(JoinText(docs, sep))

RECURSIVE PopWhile(_, _, _, _, _, _)
\* _merge_splits, inner loop: drop pieces from the front of current_doc while
\* it is longer than the overlap, or too long to take the next piece.
PopWhile(current_doc, total, len, chunk_size, chunk_overlap, separator_len) ==
    IF \/ total > chunk_overlap
       \/ /\ total + len + (IF Len(current_doc) > 0 THEN separator_len ELSE 0) > chunk_size
          /\ total > 0
    THEN PopWhile(Tail(current_doc),
                  total - (Len(current_doc[1])
                              + (IF Len(current_doc) > 1 THEN separator_len ELSE 0)),
                  len, chunk_size, chunk_overlap, separator_len)
    ELSE [current_doc |-> current_doc, total |-> total]

RECURSIVE MergeFrom(_, _, _, _, _, _, _, _)
\* _merge_splits, the loop over the pieces from the i-th on.
MergeFrom(splits, i, docs, current_doc, total, sep, chunk_size, chunk_overlap) ==
    IF i > Len(splits)
    THEN LET doc == JoinDocs(current_doc, sep)
         IN  IF doc # <<>> THEN Append(docs, doc) ELSE docs
    ELSE LET d == splits[i]
             len == Len(d)
             full == total + len + (IF Len(current_doc) > 0 THEN Len(sep) ELSE 0)
                        > chunk_size
             doc == JoinDocs(current_doc, sep)
             flushed == full /\ Len(current_doc) > 0
             kept == IF flushed
                     THEN PopWhile(current_doc, total, len, chunk_size, chunk_overlap,
                                   Len(sep))
                     ELSE [current_doc |-> current_doc, total |-> total]
             next_doc == Append(kept.current_doc, d)
         IN  MergeFrom(splits, i + 1,
                       IF flushed /\ doc # <<>> THEN Append(docs, doc) ELSE docs,
                       next_doc,
                       kept.total + len + (IF Len(next_doc) > 1 THEN Len(sep) ELSE 0),
                       sep, chunk_size, chunk_overlap)

\* The pieces merged into one chunk, whatever their length.
MergeSplitsJoinAll(splits, sep, chunk_size, chunk_overlap) ==
    IF JoinDocs(splits, sep) = <<>> THEN <<>> ELSE <<JoinDocs(splits, sep)>>

\* _merge_splits(splits, separator)
MergeSplits(splits, sep, chunk_size, chunk_overlap) ==
    MergeFrom(splits, 1, <<>>, <<>>, 0, sep, chunk_size, chunk_overlap)

\* _split_text: the first separator that is empty or occurs in the text (the
\* last one when there is none).
SeparatorIndex(text, separators) ==
    LET found == {i \in 1..Len(separators) :
                     separators[i] = <<>> \/ Occurrences(text, separators[i]) # {}}
    IN  IF found = {} THEN Len(separators)
        ELSE CHOOSE i \in found : \A j \in found : i <= j

RECURSIVE SplitText(_, _, _, _)
RECURSIVE SplitLoop(_, _, _, _, _, _, _)
\* _split_text, the loop over the pieces from the j-th on: short pieces are
\* collected and merged, a long one is split by the finer separators.
SplitLoop(splits, j, good_splits, final_chunks, new_separators, chunk_size, chunk_overlap) ==
    LET merged == IF good_splits # <<>>
                  THEN MergeSplits(good_splits, <<>>, chunk_size, chunk_overlap)
                  ELSE <<>>
    IN  IF j > Len(splits) THEN final_chunks \o merged
        ELSE IF Len(splits[j]) < chunk_size
        THEN SplitLoop(splits, j + 1, Append(good_splits, splits[j]), final_chunks,
                       new_separators, chunk_size, chunk_overlap)
        ELSE SplitLoop(splits, j + 1, <<>>,
                       final_chunks \o merged
                           \o (IF new_separators = <<>> THEN <<splits[j]>>
                               ELSE SplitText(splits[j], new_separators,
                                              chunk_size, chunk_overlap)),
                       new_separators, chunk_size, chunk_overlap)

\* RecursiveCharacterTextSplitter._split_text(text, separators)
SplitText(text, separators, chunk_size, chunk_overlap) ==
    LET i == SeparatorIndex(text, separators)
        separator == separators[i]
        new_separators == IF separator = <<>> \/ Occurrences(text, separator) = {}
                          THEN <<>>
                          ELSE SubSeq(separators, i + 1, Len(separators))
    IN  SplitLoop(SplitTextWithRegex(text, separator), 1, <<>>, <<>>, new_separators,
                  chunk_size, chunk_overlap)

\* A Document / a chunk: its text and its metadata.
Doc(text, metadata) == [page_content |-> text, metadata |-> metadata]

RECURSIVE SplitDocumentsFrom(_, _, _, _)
SplitDocumentsFrom(documents, i, chunk_size, chunk_overlap) ==
    IF i > Len(documents) THEN <<>>
    ELSE LET texts == SplitText(documents[i].page_content, Separators,
                                chunk_size, chunk_overlap)
         IN  [k \in 1..Len(texts) |-> Doc(texts[k], documents[i].metadata)]
                 \o SplitDocumentsFrom(documents, i + 1, chunk_size, chunk_overlap)

\* splitter.split_documents(documents): the chunks of every document, in
\* order, each with a copy of its document's metadata.
SplitDocuments(documents, chunk_size, chunk_overlap) ==
    SplitDocumentsFrom(documents, 1, chunk_size, chunk_overlap)

\* The constructor's check: only an overlap larger than the chunk size is
\* refused (ValueError).
SplitterAccepts(chunk_size, chunk_overlap) == ~(chunk_overlap > chunk_size)

(***************************************************************************)
(* Document preparation: process_local_json.stream_papers, and the loading *)
(* and splitting of build_vector_store.main and load_and_embed.main up to  *)
(* the point where the chunks go to the vector store.                      *)
(***************************************************************************)
\* "Title: "
TitleLabel == <<84, 105, 116, 108, 101, 58, 32>>

\* "Abstract: "
AbstractLabel == <<65, 98, 115, 116, 114, 97, 99, 116, 58, 32>>

\* "Summary: "
SummaryLabel == <<83, 117, 109, 109, 97, 114, 121, 58, 32>>

\* "Unknown Date"
UnknownDate == <<85, 110, 107, 110, 111, 119, 110, 32, 68, 97, 116, 101>>

\* The lines a JSONL file may hold: a paper with title and abstract, a
\* paper without a title, a line cut off in the middle, an empty line.
PaperLine == "{\"title\": \"B\", \"abstract\": \"q\", \"categories\": \"c d\"}\n"

UntitledLine == "{\"abstract\": \"q\", \"categories\": \"c\"}\n"

CutLine == "{\"title\": \"B\", \"abs\n"

EmptyLine == "\n"

\* json.loads(line.strip()): the dictionary, or JSONDecodeError.
JsonLoads(line) ==
    CASE line = PaperLine ->
             [ok |-> TRUE,
              value |-> [title |-> <<66>>, abstract |-> <<113>>,
                         categories |-> <<99, 32, 100>>]]
      [] line = UntitledLine ->
             [ok |-> TRUE, value |-> [abstract |-> <<113>>, categories |-> <<99>>]]
      [] OTHER -> [ok |-> FALSE, value |-> <<>>]

JsonlFiles ==
    {<<>>, <<PaperLine>>, <<CutLine, PaperLine>>, <<PaperLine, EmptyLine, UntitledLine>>,
     <<CutLine, EmptyLine>>, <<UntitledLine, CutLine, PaperLine>>}

\* str.split(" ")[0]
FirstWord(t) ==
    IF Occurrences(t, Blank) = {} THEN t
    ELSE SubSeq(t, 1, (CHOOSE k \in Occurrences(t, Blank) :
                           \A m \in Occurrences(t, Blank) : k <= m) - 1)

\* The rows of the Parquet file, as transform_paper writes them: every
\* column is there, and a paper without a title has the empty title.
RowB == [title |-> <<66>>, abstract |-> <<113>>, categories |-> <<99, 32, 100>>,
         authors |-> <<>>]

RowUntitled == [title |-> <<>>, abstract |-> <<113>>, categories |-> <<99>>,
                authors |-> <<>>]

NoTable == [present |-> FALSE, rows |-> <<>>]

Table(rows) == [present |-> TRUE, rows |-> rows]

Parquets == {NoTable, Table(<<RowB>>), Table(<<RowUntitled, RowB>>)}

\* load_from_parquet, one row: the Document of a paper.
PaperDocument(row) ==
    Doc(TitleLabel \o Get(row, "title", <<>>) \o Newline \o Newline
            \o AbstractLabel \o Get(row, "abstract", <<>>),
        [title |-> Get(row, "title", <<>>),
         primary_category |-> FirstWord(Get(row, "categories", <<>>)),
         authors |-> Get(row, "authors", <<>>),
         source_type |-> "arxiv_paper"])

\* load_from_parquet(file_path)
load_from_parquet(file) ==
    IF ~file.present THEN <<>>
    ELSE [i \in 1..Len(file.rows) |-> PaperDocument(file.rows[i])]

\* The rows of the CSV file of load_and_embed.py: with the Title column, and
\* of a file without it.
CsvRowB == [Title |-> <<66>>, Summary |-> <<113>>, Primary_Category |-> <<99>>]

CsvRowUntitled == [Summary |-> <<113>>]

Csvs == {NoTable, Table(<<>>), Table(<<CsvRowB>>), Table(<<CsvRowUntitled>>)}

\* create_documents_from_csv, one row
CsvDocument(row) ==
    Doc(TitleLabel \o Get(row, "Title", <<>>) \o Newline \o Newline
            \o SummaryLabel \o Get(row, "Summary", <<>>),
        [title |-> Get(row, "Title", UnknownTitle),
         published |-> Get(row, "Published", UnknownDate),
         primary_category |-> Get(row, "Primary_Category", NoCategory),
         source_type |-> "arxiv_paper"])

\* create_documents_from_csv(file_path), the file being there
create_documents_from_csv(file) ==
    [i \in 1..Len(file.rows) |-> CsvDocument(file.rows[i])]

\* file_path.stem.replace("_", " ").title() on the file names used
StemTitle(stem) ==
    CASE stem = "a" -> <<65>>
      [] stem = "b_c" -> <<66, 32, 67>>
      [] OTHER -> <<88>>

\* A .txt file: its base name and its text.
TxtFile(stem, text) == [stem |-> stem, text |-> text]

\* The transcript sources of the configuration: a path that does not exist,
\* a directory with its .txt files, a .txt file, a file of another type.
MissingPath == [kind |-> "missing", files |-> <<>>]

Directory(files) == [kind |-> "dir", files |-> files]

TextFile(file) == [kind |-> "txt", files |-> <<file>>]

OtherFile == [kind |-> "other", files |-> <<>>]

\* "a b" in a.txt; b_c.txt is empty.
FileA == TxtFile("a", <<97, 32, 98>>)

FileBc == TxtFile("b_c", <<>>)

SourceLists ==
    {<<>>, <<MissingPath>>, <<MissingPath, TextFile(FileA)>>,
     <<OtherFile, Directory(<<FileBc, FileA>>)>>, <<Directory(<<>>), OtherFile>>,
     <<TextFile(FileBc)>>, <<TextFile(FileA), MissingPath, Directory(<<FileA>>)>>}

\* load_from_text_files, the inner loop: the Documents of the files.
TranscriptDocuments(files) ==
    [i \in 1..Len(files) |->
        Doc(files[i].text, [title |-> StemTitle(files[i].stem),
                            source_type |-> "transcript"])]

\* The round of the loop returning the empty list at a path it cannot load.
LoadSourceReturnEmpty(all_docs, path) ==
    IF path.kind \in {"dir", "txt"}
    THEN all_docs \o TranscriptDocuments(path.files)
    ELSE <<>>

\* load_from_text_files, one round of the loop over the source paths: a
\* missing or unsupported path is skipped.
LoadSource(all_docs, path) ==
    IF path.kind \in {"dir", "txt"}
    THEN all_docs \o TranscriptDocuments(path.files)
    ELSE all_docs

\* (chunk_size, chunk_overlap) of config.embedding_pipeline.text_splitter
SplitterConfigs == {<<8, 2>>, <<8, 8>>, <<8, 9>>}

\* RecursiveCharacterTextSplitter(chunk_size=500, chunk_overlap=50)
LoadAndEmbedSplitter == <<500, 50>>

\* A preparation not yet started.
IdlePrep ==
    [program |-> "none", pc |-> "off", index_before |-> NoDir,
     lines |-> <<>>, i |-> 1, papers |-> <<>>,
     table |-> NoTable, sources |-> <<>>,
     paper_docs |-> <<>>, transcript_docs |-> <<>>, documents |-> <<>>,
     chunk_size |-> 0, chunk_overlap |-> 0, chunks |-> <<>>, outcome |-> "none"]

PrepEnds(outcome) == [prep EXCEPT !.pc = "done", !.outcome = outcome]

\* stream_papers: one round of the loop over the lines of the file; a line
\* that json.loads refuses is skipped.
StreamLine ==
    /\ prep.pc = "stream"
    /\ IF prep.i > Len(prep.lines)
       THEN prep' = PrepEnds("returned")
       ELSE LET r == JsonLoads(prep.lines[prep.i])
            IN  prep' = [prep EXCEPT !.i = @ + 1,
                                     !.papers = IF r.ok THEN Append(@, r.value) ELSE @]
    /\ UNCHANGED <<disk, embeddingOK, serveVars, buildVars>>

\* build_vector_store.main: paper_docs = load_from_parquet(parquet_source)
LoadFromParquet ==
    /\ prep.pc = "load_parquet"
    /\ prep' = [prep EXCEPT !.pc = "load_text", !.i = 1,
                            !.paper_docs = load_from_parquet(prep.table)]
    /\ UNCHANGED <<disk, embeddingOK, serveVars, buildVars>>

\* load_from_text_files: one round of the loop over the source paths, and
\* after the last one all_documents = paper_docs + transcript_docs.
LoadTextSource ==
    /\ prep.pc = "load_text"
    /\ IF prep.i > Len(prep.sources)
       THEN prep' = [prep EXCEPT !.pc = "check",
                                 !.documents = prep.paper_docs \o prep.transcript_docs]
       ELSE prep' = [prep EXCEPT !.i = @ + 1,
                                 !.transcript_docs = LoadSource(@, prep.sources[prep.i])]
    /\ UNCHANGED <<disk, embeddingOK, serveVars, buildVars>>

\* load_and_embed.main: create_documents_from_csv, FileNotFoundError caught.
CreateDocumentsFromCsv ==
    /\ prep.pc = "load_csv"
    /\ IF ~prep.table.present
       THEN prep' = PrepEnds("csv not found")
       ELSE prep' = [prep EXCEPT !.pc = "check",
                                 !.documents = create_documents_from_csv(prep.table)]
    /\ UNCHANGED <<disk, embeddingOK, serveVars, buildVars>>

\* `if not all_documents: return`
CheckDocuments ==
    /\ prep.pc = "check"
    /\ IF prep.documents = <<>>
       THEN prep' = PrepEnds("no documents")
       ELSE prep' = [prep EXCEPT !.pc = "split"]
    /\ UNCHANGED <<disk, embeddingOK, serveVars, buildVars>>

\* The splitter is constructed and the documents are split; the chunks go to
\* the steps that build and save the store.  The constructor's ValueError
\* ends the run; so does an empty chunk list, from which the library builds
\* no store.
SplitStep ==
    /\ prep.pc = "split"
    /\ run.pc = "idle"
    /\ IF ~SplitterAccepts(prep.chunk_size, prep.chunk_overlap)
       THEN /\ prep' = PrepEnds("raised")
            /\ UNCHANGED <<run, last>>
       ELSE LET split_docs == SplitDocuments(prep.documents, prep.chunk_size,
                                             prep.chunk_overlap)
            IN  IF split_docs = <<>>
                THEN /\ prep' = PrepEnds("no chunks")
                     /\ UNCHANGED <<run, last>>
                ELSE /\ prep' = [prep EXCEPT !.pc = "store", !.chunks = split_docs]
                     /\ run' = [IdleRun EXCEPT !.script = prep.program, !.pc = "split",
                                               !.path = PathOf(prep.program),
                                               !.chunks = split_docs,
                                               !.before = disk[PathOf(prep.program)]]
                     /\ last' = NoRunYet
    /\ UNCHANGED <<disk, embeddingOK, serveVars, hist, observed>>

\* The chunk of the index a path holds before the run.
OldChunk == Doc(<<111, 108, 100>>, [title |-> <<79>>, source_type |-> "transcript"])

\* The preparations a behaviour may follow.
Preparations ==
    {[IdlePrep EXCEPT !.program = "process_local_json", !.pc = "stream", !.lines = l] :
        l \in JsonlFiles}
    \cup {[IdlePrep EXCEPT !.program = "build_vector_store", !.pc = "load_parquet",
                           !.table = t, !.sources = src,
                           !.chunk_size = c[1], !.chunk_overlap = c[2]] :
             t \in Parquets, src \in SourceLists, c \in SplitterConfigs}
    \cup {[IdlePrep EXCEPT !.program = "load_and_embed", !.pc = "load_csv", !.table = t,
                           !.chunk_size = LoadAndEmbedSplitter[1],
                           !.chunk_overlap = LoadAndEmbedSplitter[2]] :
             t \in Csvs}

InitPrepare ==
    /\ \E d \in {NoDir, SavedDir(<<OldChunk>>)}, p \in Preparations :
           /\ disk = [q \in Paths |-> d]
           /\ prep = [p EXCEPT !.index_before = d]
    /\ embeddingOK = TRUE
    /\ pc = [p \in Procs |-> "off"]
    /\ exitStatus = [p \in Procs |-> -1]
    /\ bot = [p \in Procs |-> NoBot]
    /\ req = [c \in Callers |-> IdleReq]
    /\ cliTokens = 0
    /\ run = IdleRun
    /\ hist = [p \in Paths |-> FreshHist]
    /\ last = NoRunYet
    /\ observed = NothingObserved
    /\ cliLog = NoInput
    /\ fmt = NotFormatted

NextPrepare ==
    \/ StreamLine
    \/ LoadFromParquet
    \/ LoadTextSource
    \/ CreateDocumentsFromCsv
    \/ CheckDocuments
    \/ SplitStep
    \/ BuildStore
    \/ SaveVectors
    \/ SaveRecords

SpecPrepare == InitPrepare /\ [][NextPrepare]_vars

(***************************************************************************)
(* Properties of the document preparation.                                 *)
(***************************************************************************)
\* The lines of a file that are JSON.
WellFormed(lines) == SelectSeq(lines, LAMBDA l : l \in {PaperLine, UntitledLine})

\* The .txt files the source paths lead to, in the order of the paths.
RECURSIVE LoadableFiles(_)
LoadableFiles(sources) ==
    IF sources = <<>> THEN <<>>
    ELSE (IF Head(sources).kind \in {"missing", "other"} THEN <<>>
          ELSE Head(sources).files) \o LoadableFiles(Tail(sources))

\* C15: loading goes on past what cannot be loaded.  stream_papers yields
\* one dictionary per well-formed line, in order, whatever malformed lines
\* lie between them, and reaches the end of the file; load_from_text_files
\* yields one Document per .txt file of the paths that are a directory or a
\* .txt file, whatever missing or unsupported paths lie between them; a
\* missing Parquet file gives no paper documents and the transcripts are
\* loaded all the same; no run ends with an exception before its documents
\* are loaded.
C15_SkipAndContinue ==
    /\ prep.program = "process_local_json" =>
           /\ Len(prep.papers) = Len(WellFormed(SubSeq(prep.lines, 1, prep.i - 1)))
           /\ \A k \in 1..Len(prep.papers) :
                  prep.papers[k] = JsonLoads(WellFormed(prep.lines)[k]).value
           /\ prep.pc = "done" =>
                  (prep.outcome = "returned" /\ prep.i = Len(prep.lines) + 1)
    /\ prep.program = "build_vector_store" =>
           /\ prep.pc = "load_text" =>
                  Len(prep.transcript_docs)
                      = Len(LoadableFiles(SubSeq(prep.sources, 1, prep.i - 1)))
           /\ prep.pc \in {"check", "split", "store", "done"} =>
                  /\ Len(prep.transcript_docs) = Len(LoadableFiles(prep.sources))
                  /\ \A k \in 1..Len(prep.transcript_docs) :
                         /\ prep.transcript_docs[k].page_content
                                = LoadableFiles(prep.sources)[k].text
                         /\ prep.transcript_docs[k].metadata.title
                                = StemTitle(LoadableFiles(prep.sources)[k].stem)
                  /\ ~prep.table.present => prep.paper_docs = <<>>
                  /\ Len(prep.paper_docs) = Len(prep.table.rows)
                  /\ prep.documents = prep.paper_docs \o prep.transcript_docs
           /\ prep.outcome \in {"raised", "no chunks"} => prep.documents # <<>>

\* A build without a Parquet file, with a missing path between two sources
\* that load: both transcripts are in the index the run has saved.
C15_Witness ==
    /\ prep.program = "build_vector_store" /\ ~prep.table.present
    /\ prep.sources = <<TextFile(FileA), MissingPath, Directory(<<FileA>>)>>
    /\ Len(prep.documents) = 2
    /\ last.outcome = "saved"
    /\ Len(disk["cfg"].pkl.data) >= 2

\* C16: every Document the loaders produce has a title that is not empty.
C16_TitleNeverEmpty ==
    \A k \in 1..Len(prep.documents) : prep.documents[k].metadata.title # <<>>

\* C17: under a configuration with chunk_overlap >= chunk_size the build
\* splits nothing and ends with an error, and the index path holds what it
\* held before.
C17_OverlapNotBelowSizeRejected ==
    (prep.program = "build_vector_store" /\ prep.chunk_overlap >= prep.chunk_size) =>
        /\ prep.chunks = <<>>
        /\ prep.pc = "done" => prep.outcome \in {"raised", "no documents"}
        /\ prep.pc # "store"
        /\ disk = [q \in Paths |-> prep.index_before]

(***************************************************************************)
(* The chunker on its own: any text up to a length, any configuration up   *)
(* to a chunk size.                                                        *)
(***************************************************************************)
\* The longest document text.
MaxTextLen == 4

\* The largest chunk size and overlap.
MaxChunkSize == 3

\* The characters of the texts: a letter, the blank, the newline.
Alphabet == {97, 32, 10}

Texts == UNION {[1..n -> Alphabet] : n \in 0..MaxTextLen}

\* One document, or that document followed by a transcript "a b".
DocumentLists ==
    {<<Doc(t, PaperB)>> : t \in Texts}
        \cup {<<Doc(t, PaperB), Doc(<<97, 32, 98>>, TranscriptA)>> : t \in Texts}

InitSplit ==
    /\ disk = [q \in Paths |-> NoDir]
    /\ \E docs \in DocumentLists, size \in 1..MaxChunkSize, overlap \in 0..MaxChunkSize :
           prep = [IdlePrep EXCEPT !.program = "build_vector_store", !.pc = "split",
                                   !.documents = docs,
                                   !.chunk_size = size, !.chunk_overlap = overlap]
    /\ embeddingOK = TRUE
    /\ pc = [p \in Procs |-> "off"]
    /\ exitStatus = [p \in Procs |-> -1]
    /\ bot = [p \in Procs |-> NoBot]
    /\ req = [c \in Callers |-> IdleReq]
    /\ cliTokens = 0
    /\ run = IdleRun
    /\ hist = [p \in Paths |-> FreshHist]
    /\ last = NoRunYet
    /\ observed = NothingObserved
    /\ cliLog = NoInput
    /\ fmt = NotFormatted

NextSplit == SplitStep

SpecSplit == InitSplit /\ [][NextSplit]_vars

\* s occurs in t as a contiguous piece.
IsPieceOf(s, t) == \E i \in 1..(Len(t) + 1) : i + Len(s) - 1 <= Len(t)
                                               /\ SubSeq(t, i, i + Len(s) - 1) = s

\* The document a chunk is of, told by its metadata.
DocumentOf(chunk) == CHOOSE j \in 1..Len(prep.documents) :
                         prep.documents[j].metadata = chunk.metadata

\* C18: with chunk_overlap < chunk_size the split ends without an exception
\* of the chunker; every chunk is no longer than chunk_size, is a piece of
\* the text of a document and carries exactly that document's metadata, the
\* chunks of a document coming before those of the next; a document with the
\* empty text has no chunk.
C18_ChunksWithinSize ==
    (prep.pc \in {"store", "done"} /\ prep.chunk_overlap < prep.chunk_size) =>
        /\ prep.outcome # "raised"
        /\ (prep.outcome = "no chunks") = (prep.chunks = <<>>)
        /\ \A k \in 1..Len(prep.chunks) :
               /\ Len(prep.chunks[k].page_content) <= prep.chunk_size
               /\ Len(prep.chunks[k].page_content) >= 1
               /\ \E j \in 1..Len(prep.documents) :
                      /\ prep.chunks[k].metadata = prep.documents[j].metadata
                      /\ IsPieceOf(prep.chunks[k].page_content,
                                   prep.documents[j].page_content)
               /\ k > 1 => DocumentOf(prep.chunks[k - 1]) <= DocumentOf(prep.chunks[k])
        /\ \A j \in 1..Len(prep.documents) :
               prep.documents[j].page_content = <<>> =>
                   \A k \in 1..Len(prep.chunks) :
                       prep.chunks[k].metadata # prep.documents[j].metadata

\* An empty paper and the transcript "a b" split with size 2: the chunks are
\* "a" and "b" of the transcript.
C18_Witness ==
    /\ prep.pc = "store" /\ prep.chunk_size = 2 /\ prep.chunk_overlap = 1
    /\ prep.documents = <<Doc(<<>>, PaperB), Doc(<<97, 32, 98>>, TranscriptA)>>
    /\ prep.chunks = <<Doc(<<97>>, TranscriptA), Doc(<<98>>, TranscriptA)>>

(***************************************************************************)
(* The Answer API under concurrent requests.  ask_question is a plain      *)
(* `def` endpoint, so FastAPI runs each request on a thread of its pool:   *)
(* a request may be anywhere between bot.ask's update of llm.num_predict   *)
(* and the language-model call of chain.invoke while another one starts.   *)
(***************************************************************************)
InitConcurrent == Init /\ pc["api"] = "start"

NextConcurrent ==
    \/ StartupEvent
    \/ \E t \in Threads, length \in RequestLengths : ApiAskBegin(t, length)
    \/ \E t \in Threads : ApiAskFinish(t)

SpecConcurrent == InitConcurrent /\ [][NextConcurrent]_vars

\* C11: with requests served concurrently on one bot, the language-model
\* call of every request runs with the token budget that request itself
\* passed to bot.ask.
C11_BudgetOfOwnRequest ==
    \A t \in Threads :
        req[t].llm # "none" => req[t].llm_budget = req[t].num_tokens

\* C12: ask changes nothing of the bot: whatever was asked, the bot of the
\* API and of the CLI is the bot construction has built from the index path
\* (index, and the language model's num_predict of the "medium" length).
C12_AskLeavesBotAsConstructed ==
    \A p \in {"api", "cli"} :
        bot[p] # NoBot =>
            bot[p] = InitializeChain(disk[IndexPathOf(p)], embeddingOK).bot


\* The serving process a caller belongs to.
ProcOf(c) == IF c \in Threads THEN "api" ELSE c

\* C20: a question whose language-model call failed leaves its serving
\* process running with its bot, in the state where it takes the next
\* question.
C20_FailedAskKeepsServing ==
    \A c \in Callers :
        req[c].llm = "raised" =>
            /\ pc[ProcOf(c)] \in {"serving", "ask"}
            /\ exitStatus[ProcOf(c)] = -1
            /\ bot[ProcOf(c)] # NoBot

(***************************************************************************)
(* A query-serving process next to the build runs on its index path: the   *)
(* process is started at any moment, before, between or after the runs,    *)
(* and the runs go on while it serves.                                     *)
(***************************************************************************)
InitReload ==
    /\ disk = [p \in Paths |-> NoDir]
    /\ embeddingOK = TRUE
    /\ \E program \in Procs :
           pc = [p \in Procs |-> IF p = program THEN "start" ELSE "off"]
    /\ exitStatus = [p \in Procs |-> -1]
    /\ bot = [p \in Procs |-> NoBot]
    /\ req = [c \in Callers |-> IdleReq]
    /\ cliTokens = 0
    /\ run = IdleRun
    /\ hist = [p \in Paths |-> FreshHist]
    /\ last = NoRunYet
    /\ observed = NothingObserved
    /\ cliLog = NoInput
    /\ fmt = NotFormatted
    /\ prep = NoPrep

\* The scripts that write the index path the running program reads.
WritersOf(p) == {script \in Scripts : PathOf(script) = IndexPathOf(p)}

\* The longest index the runs build next to a serving process.
MaxReloadLen == 2

\* The requests and inputs the serving process gets while the runs go on.
ReloadInputs == {"long", " What is qualia? ", "exit"}

NextReload ==
    \/ \E p \in Procs : \E script \in WritersOf(p) : \E chunks \in RunChunks(script) :
           /\ pc[p] # "off"
           /\ Len(chunks) = 1 /\ DirLen(disk[PathOf(script)]) < MaxReloadLen
           /\ RunStart(script, chunks)
    \/ BuildStore
    \/ SaveVectors
    \/ SaveRecords
    \/ Crash
    \/ StartupEvent
    \/ NoRequestInFlight /\ ApiAskBegin("t1", "long")
    \/ ApiAskFinish("t1")
    \/ CliConstruct
    \/ \E input \in ReloadInputs : CliChoose(input)
    \/ \E input \in ReloadInputs : CliAsk(input)
    \/ LegacyConstruct
    \/ \E input \in ReloadInputs : LegacyAsk(input)

SpecReload == InitReload /\ [][NextReload]_vars

\* The in-memory index of a store as loaded from a directory.
LoadedFrom(d) == [vectors |-> d.faiss.data, records |-> d.pkl.data]

\* C13: a serving process takes its in-memory index from the index path
\* once, when its bot is constructed; afterwards no step (an ask, or a build
\* run rewriting the path) changes that index, and no step of a serving
\* process changes the index path.
C13_IndexReadOnly ==
    [][/\ \A p \in Procs :
              /\ bot[p] # NoBot => (bot'[p] # NoBot /\ bot'[p].db = bot[p].db)
              /\ (bot[p] = NoBot /\ bot'[p] # NoBot) =>
                     /\ Complete(disk[IndexPathOf(p)])
                     /\ bot'[p].db = LoadedFrom(disk[IndexPathOf(p)])
       /\ serveVars' # serveVars => disk' = disk]_vars

\* A question answered from the index as loaded, of one entry, while the
\* index path holds the longer index a later build run has saved.
C13_Witness ==
    \E p \in Procs :
        /\ bot[p] # NoBot /\ Len(bot[p].db.records) = 1
        /\ Complete(disk[IndexPathOf(p)])
        /\ Len(disk[IndexPathOf(p)].pkl.data) > 1
        /\ last.outcome = "saved"
        /\ \E c \in Callers :
               /\ req[c].llm = "ok" /\ req[c].docs = bot[p].db.records

(***************************************************************************)
(* format_response on any result dictionary (src/src/rag_pipeline/bot.py). *)
(***************************************************************************)
MaxSourceDocs == 2

\* Source documents; PaperB and TranscriptBc format to one string, and so
\* do TranscriptA and ChalmersA.
SourceDocuments == {PaperB, TranscriptA, TranscriptBc, PaperBare, ChalmersA}

SourceDocumentLists == UNION {[1..n -> SourceDocuments] : n \in 0..MaxSourceDocs}

\* The dictionaries a chain may hand over: each of the keys "result" and
\* "source_documents" present or absent.
ResultDict(keys, text, docs) ==
    [k \in keys |-> IF k = "result" THEN text ELSE docs]

ResultDicts ==
    {ResultDict(keys, text, docs) :
        keys \in SUBSET {"result", "source_documents"},
        text \in LLMTexts, docs \in SourceDocumentLists}

\* format_response(result)
FormatStep ==
    /\ fmt.pc = "call"
    /\ fmt' = [fmt EXCEPT !.pc = "returned", !.response = FormatResponse(fmt.result)]
    /\ UNCHANGED <<disk, embeddingOK, pc, exitStatus, bot, req, cliTokens, cliLog,
                   buildVars, prep>>

InitFormat ==
    /\ disk = [q \in Paths |-> NoDir]
    /\ embeddingOK = TRUE
    /\ pc = [p \in Procs |-> "off"]
    /\ exitStatus = [p \in Procs |-> -1]
    /\ bot = [p \in Procs |-> NoBot]
    /\ req = [c \in Callers |-> IdleReq]
    /\ cliTokens = 0
    /\ run = IdleRun
    /\ hist = [p \in Paths |-> FreshHist]
    /\ last = NoRunYet
    /\ observed = NothingObserved
    /\ prep = NoPrep
    /\ cliLog = NoInput
    /\ \E result \in ResultDicts : fmt = [NotFormatted EXCEPT !.pc = "call", !.result = result]

NextFormat == FormatStep

SpecFormat == InitFormat /\ [][NextFormat]_vars

\* C21: format_response emits the "Answer:" section with the result text, or
\* with "No answer found." when the dictionary has no "result" key; it emits
\* the "Sources:" section exactly when the source document list is not empty,
\* and that section has one line for every distinct formatted source: each
\* formatted source is a line, each line is a formatted source, and no line
\* is written twice.
C21_FormatResponse ==
    fmt.pc = "returned" =>
        LET result == fmt.result
            out == fmt.response
            listed == IF "source_documents" \in DOMAIN result
                      THEN result["source_documents"] ELSE <<>>
        IN  /\ out.status = "printed"
            /\ out.answer = IF "result" \in DOMAIN result
                            THEN result["result"] ELSE "No answer found."
            /\ out.sources_header <=> Len(listed) > 0
            /\ Range(out.sources) = {format_source_doc(listed[i]) : i \in 1..Len(listed)}
            /\ \A i, j \in 1..Len(out.sources) :
                   out.sources[i] = out.sources[j] => i = j

\* A dictionary without "result" and with two documents of one source has
\* been formatted: the fallback answer and a single source line.
C21_Witness ==
    /\ fmt.pc = "returned"
    /\ DOMAIN fmt.result = {"source_documents"}
    /\ fmt.result["source_documents"] = <<PaperB, TranscriptBc>>
    /\ fmt.response.answer = "No answer found."
    /\ fmt.response.sources_header
    /\ Len(fmt.response.sources) = 1

(***************************************************************************)
(* The CLI session (src/src/rag_pipeline/main_cli.py).                     *)
(***************************************************************************)
\* C22: in the CLI session no question is put to the bot before a valid
\* answer length is chosen; a round of the length prompt leaves the prompt
\* exactly when its input, lower-cased and trimmed, is a key of the
\* answer-length map, and fixes the token budget of that key; in the question
\* loop the budget is still the one of the chosen key, an empty input calls
\* bot.ask zero times and stays in the loop, "exit"/"quit" in any letter case
\* calls it zero times and ends the session with status 0, and every other
\* input calls it once, passing the budget of the chosen key.
C22_CliSession ==
    /\ pc["cli"] \in {"off", "start", "choose"} =>
           /\ cliLog.prompt # "question"
           /\ cliLog.asked = 0
           /\ req["cli"].llm = "none"
    /\ cliLog.prompt = "length" =>
           /\ cliLog.asked = 0
           /\ req["cli"].llm = "none"
           /\ CASE cliLog.input = " Medium " ->
                       /\ pc["cli"] = "ask" /\ req["cli"].length = "medium"
                       /\ cliTokens = AnswerLengthMap["medium"]
                [] cliLog.input = "long" ->
                       /\ pc["cli"] = "ask" /\ req["cli"].length = "long"
                       /\ cliTokens = AnswerLengthMap["long"]
                [] cliLog.input = "short" ->
                       /\ pc["cli"] = "ask" /\ req["cli"].length = "short"
                       /\ cliTokens = AnswerLengthMap["short"]
                [] OTHER -> pc["cli"] = "choose" /\ cliTokens = 0
    /\ cliLog.prompt = "question" =>
           /\ req["cli"].length \in DOMAIN AnswerLengthMap
           /\ cliTokens = AnswerLengthMap[req["cli"].length]
           /\ req["cli"].llm # "none" => req["cli"].num_tokens = cliTokens
           /\ CASE cliLog.input \in {"", "  "} ->
                       cliLog.asked = 0 /\ pc["cli"] = "ask"
                [] cliLog.input \in {"exit", "QUIT"} ->
                       /\ cliLog.asked = 0
                       /\ pc["cli"] = "exited" /\ exitStatus["cli"] = 0
                [] OTHER ->
                       /\ cliLog.asked = 1
                       /\ cliLog.passed = cliTokens
                       /\ req["cli"].llm # "none"
                       /\ req["cli"].num_tokens = cliTokens

\* After " Medium " was accepted and a question answered, "QUIT" has ended
\* the session without another call.
C22_Witness ==
    /\ cliLog.prompt = "question"
    /\ cliLog.input = "QUIT"
    /\ cliLog.asked = 0
    /\ pc["cli"] = "exited"
    /\ req["cli"].length = "medium"
    /\ req["cli"].llm = "ok"
    /\ req["cli"].num_tokens = AnswerLengthMap["medium"]

=============================================================================
